---- MODULE Spec2Model ----
(***************************************************************************)
(* Model of ai_music_cleaner.py: the /process pipeline (download_audio,    *)
(* separate_audio, keep_only_sound, os.replace) and the /file endpoint,    *)
(* over a filesystem shared by concurrently served requests.               *)
(*                                                                         *)
(* Strings are sequences of tokens; "." and "/" are tokens of their own,   *)
(* every other token stands for a run of characters holding neither, so    *)
(* pathlib's stem / with_suffix / with_name are computed as pathlib does.  *)
(* Paths are written relative to BASE_DIR; a file_name is one path         *)
(* component.                                                              *)
(***************************************************************************)
EXTENDS Naturals, Sequences, FiniteSets, TLC

\* Number of /process requests served in one behaviour.
MaxReqs == 2

Reqs == 1..MaxReqs

\* Request inputs (query parameters of /process).
URLs == {"u1", "u2"}
FileNames == { <<"a">>, <<"b">>, <<"a", ".", "b">>, <<"a", "_sound", ".", "wav">> }
FileTypes == {"vocals", "music", "karaoke"}

----------------------------------------------------------------------------
(* Strings and pathlib *)

MP3 == <<".", "mp3">>
SOUND_WAV == <<"_sound", ".", "wav">>
VOCALS_WAV == <<"vocals", ".", "wav">>
ACCOMPANIMENT_WAV == <<"accompaniment", ".", "wav">>

DOWNLOAD_DIR == <<"Downloads">>
OUTPUT_DIR == <<"output">>

\* str.rfind: the last position of token t in s, 0 when absent.
LastIndexOf(s, t) ==
    LET hits == {i \in 1..Len(s) : s[i] = t}
    IN  IF hits = {} THEN 0 ELSE CHOOSE i \in hits : \A j \in hits : j <= i

\* pathlib: dir / name
Join(dir, name) == dir \o <<"/">> \o name

\* pathlib: Path.name, the last component
PathName(p) == SubSeq(p, LastIndexOf(p, "/") + 1, Len(p))

\* pathlib: Path.parent
PathParent(p) == SubSeq(p, 1, LastIndexOf(p, "/") - 1)

\* pathlib: a name has a suffix when its last dot is neither its first nor
\* its last character.
HasSuffix(name) ==
    LET i == LastIndexOf(name, ".") IN 1 < i /\ i < Len(name)

\* pathlib: the name without its suffix
NameStem(name) ==
    IF HasSuffix(name) THEN SubSeq(name, 1, LastIndexOf(name, ".") - 1) ELSE name

\* pathlib: Path.stem
PathStem(p) == NameStem(PathName(p))

\* pathlib: Path.with_name
WithName(p, name) ==
    IF LastIndexOf(p, "/") = 0 THEN name ELSE Join(PathParent(p), name)

\* pathlib: Path.with_suffix('')
WithSuffixEmpty(p) == WithName(p, PathStem(p))

----------------------------------------------------------------------------
(* The filesystem: a function from the paths that exist to what is there.  *)
(* A file records which request's fetch its audio comes from (by), which   *)
(* stem it is and its form.                                                *)

Dir == [kind |-> "dir", by |-> 0, stem |-> "-", form |-> "-"]
File(by, stem, form) == [kind |-> "file", by |-> by, stem |-> stem, form |-> form]

Exists(f, p) == p \in DOMAIN f
IsFile(f, p) == Exists(f, p) /\ f[p].kind = "file"
IsDir(f, p) == Exists(f, p) /\ f[p].kind = "dir"
WriteFile(f, p, c) == (p :> c) @@ f
Remove(f, p) == [q \in DOMAIN f \ {p} |-> f[q]]

\* Exceptions and their absence.
NoExc == [type |-> "none", status_code |-> 0, detail |-> "-"]
HTTPException(status_code, detail) ==
    [type |-> "HTTPException", status_code |-> status_code, detail |-> detail]
OtherException(detail) ==
    [type |-> "Exception", status_code |-> 0, detail |-> detail]

----------------------------------------------------------------------------
(* Step 1: download_audio.  env is what the downloader does: "ok" (the     *)
(* audio is fetched and transcoded), "silent" (the fetch fails and, under  *)
(* 'ignoreerrors': True, the error is reported and download() returns) or  *)
(* "raise" (an exception escapes the downloader).                          *)

FetchEnvs == {"ok", "silent", "raise"}

\* The file the downloader leaves: outtmpl plus the extracted codec's extension.
DownloadedFile(file_name) ==
    WithSuffixEmpty(Join(DOWNLOAD_DIR, file_name)) \o MP3

\* final_file = str(output_path) + ".mp3"
FinalFile(file_name) == Join(DOWNLOAD_DIR, file_name) \o MP3

download_audio(f, by, youtube_url, file_name, env) ==
    [fs  |-> IF env = "ok"
             THEN WriteFile(f, DownloadedFile(file_name), File(by, "mix", "mp3"))
             ELSE f,
     exc |-> IF env = "raise" THEN HTTPException(400, "Download failed") ELSE NoExc,
     ret |-> FinalFile(file_name)]

\* The paths download_audio read or wrote, by how the downloader ended.
DownloadTouched(file_name, env) ==
    IF env = "ok" THEN {DownloadedFile(file_name)} ELSE {}

----------------------------------------------------------------------------
(* Step 2: separate_audio.  env is what the separation model does on an    *)
(* input it can read: "ok" or "fail".                                      *)

SepEnvs == {"ok", "fail"}

SongOutput(file_path) == Join(OUTPUT_DIR, PathStem(file_path))

\* Mutation of SeparationError: the separator's failure raised as a client error.
SeparationErrorAsClientError == HTTPException(400, "Separation failed")

\* raise HTTPException(status_code=500, detail=f"Separation failed: ...")
SeparationError == HTTPException(500, "Separation failed")

\* What happened in separate_audio: mkdir raised, the separator raised
\* (unreadable input or a model failure), or both stems were written.
SeparateOutcome(f, file_path, env) ==
    IF Exists(f, SongOutput(file_path)) /\ ~IsDir(f, SongOutput(file_path))
    THEN "mkdir_error"
    ELSE IF ~IsFile(f, file_path) THEN "no_input"
    ELSE IF env = "fail" THEN "fail"
    ELSE "ok"

separate_audio(f, file_path, env) ==
    LET song_output == SongOutput(file_path)
        outcome == SeparateOutcome(f, file_path, env)
        made == WriteFile(f, song_output, Dir)
        stem(s) == File(f[file_path].by, s, "wav")
    IN  [fs  |-> CASE outcome = "mkdir_error" -> f
                   [] outcome = "ok" ->
                        WriteFile(WriteFile(made, Join(song_output, VOCALS_WAV), stem("vocals")),
                                  Join(song_output, ACCOMPANIMENT_WAV), stem("accompaniment"))
                   [] OTHER -> made,
         exc |-> CASE outcome = "mkdir_error" -> OtherException("FileExistsError")
                   [] outcome = "ok" -> NoExc
                   [] OTHER -> SeparationError,
         ret |-> song_output,
         outcome |-> outcome]

\* The paths separate_audio read or wrote, by how it ended.
SeparateTouched(file_path, outcome) ==
    LET song_output == SongOutput(file_path)
    IN  CASE outcome = "mkdir_error" -> {song_output}
          [] outcome = "ok" ->
                {song_output, file_path, Join(song_output, VOCALS_WAV),
                 Join(song_output, ACCOMPANIMENT_WAV)}
          [] OTHER -> {song_output, file_path}

----------------------------------------------------------------------------
(* Step 3: keep_only_sound.  env is what the filter process does: "ok",    *)
(* "fail_empty" (non-zero exit, no output file) or "fail_partial"          *)
(* (non-zero exit, a truncated output file).  subprocess.run is called     *)
(* without check: the exit code is never looked at.                        *)

TrimEnvs == {"ok", "fail_empty", "fail_partial"}

\* Mutation of SelectedFile: the two stems are swapped.
SelectedFileSwapped(out_dir, file_type) ==
    IF file_type = "vocals" THEN Join(out_dir, ACCOMPANIMENT_WAV)
    ELSE Join(out_dir, VOCALS_WAV)

SelectedFile(out_dir, file_type) ==
    IF file_type = "vocals" THEN Join(out_dir, VOCALS_WAV)
    ELSE Join(out_dir, ACCOMPANIMENT_WAV)

SoundFile(input_file) == WithName(input_file, PathStem(input_file) \o SOUND_WAV)

TrimOutcome(f, input_file, env) ==
    IF ~IsFile(f, input_file) THEN "fail_empty" ELSE env

keep_only_sound(f, input_file, env) ==
    LET output_file == SoundFile(input_file)
        outcome == TrimOutcome(f, input_file, env)
        out(form) == File(f[input_file].by, f[input_file].stem, form)
    IN  [fs  |-> CASE outcome = "ok" -> WriteFile(f, output_file, out("trimmed"))
                   [] outcome = "fail_partial" -> WriteFile(f, output_file, out("partial"))
                   [] OTHER -> f,
         exc |-> NoExc,
         ret |-> output_file,
         outcome |-> outcome]

\* The paths keep_only_sound read or wrote, by how the filter ended.
TrimTouched(input_file, outcome) ==
    IF outcome = "fail_empty" THEN {input_file}
    ELSE {input_file, SoundFile(input_file)}

----------------------------------------------------------------------------
(* Finalize: os.replace(sound_file, final_path) and the responses.         *)

FinalPath(file_name) == Join(OUTPUT_DIR, NameStem(PathName(file_name)) \o SOUND_WAV)

os_replace(f, src, dst) ==
    [fs  |-> IF IsFile(f, src) /\ ~IsDir(f, dst)
             THEN WriteFile(Remove(f, src), dst, f[src]) ELSE f,
     exc |-> IF ~Exists(f, src) THEN OtherException("FileNotFoundError")
             ELSE IF IsDir(f, dst) THEN OtherException("IsADirectoryError")
             ELSE NoExc]

\* JSONResponse(status_code=..., content={field: msg})
JSONResponse(status, field, msg) ==
    [status |-> status, field |-> field, msg |-> msg, file |-> <<>>]

NoResponse == [status |-> 0, field |-> "-", msg |-> "-", file |-> <<>>]

\* return {"file": f"/file?v={final_path}"}
FileReference(final_path) ==
    [status |-> 200, field |-> "file", msg |-> "-", file |-> <<"/file?v=">> \o final_path]

\* The query parameter v of a reference's URL.
QueryV(url) == SubSeq(url, 2, Len(url))

\* The two except clauses of process_audio.
ExceptResponse(e) ==
    IF e.type = "HTTPException" THEN JSONResponse(e.status_code, "error", e.detail)
    ELSE JSONResponse(500, "error", e.detail)

\* Mutation of ValidTypes: the check of file_type lets every value through.
AnyType == FileTypes

\* if file_type not in ["vocals", "music"]
ValidTypes == {"vocals", "music"}

ValidationResponse == JSONResponse(400, "error", "file_type must be 'vocals' or 'music'")

\* Mutation of get_file: the os.path.exists check is missing.
get_file_unchecked(f, v) ==
    IF IsFile(f, v)
    THEN [status |-> 200, field |-> "audio/wav", msg |-> "-", file |-> v]
    ELSE [status |-> 500, field |-> "text/plain", msg |-> "Internal Server Error",
          file |-> <<>>]

\* get_file: HTTPException(404) is rendered by the framework's handler as
\* {"detail": ...}; FileResponse on a path that is no regular file fails
\* while the response is sent.
get_file(f, v) ==
    IF ~Exists(f, v) THEN JSONResponse(404, "detail", "File not found")
    ELSE IF IsFile(f, v)
         THEN [status |-> 200, field |-> "audio/wav", msg |-> "-", file |-> v]
         ELSE [status |-> 500, field |-> "text/plain", msg |-> "Internal Server Error",
               file |-> <<>>]

----------------------------------------------------------------------------
(* State *)

VARIABLES
    fs,         \* the filesystem under BASE_DIR
    pc,         \* per request: "new", "fetch", "separate", "trim", "finalize", "done"
    req,        \* per request: youtube_url, file_name, file_type
    loc,        \* per request: the locals file_path, out_dir, sound_file
    resp,       \* per request: the response returned by process_audio
    got,        \* the request and response of the last GET /file
    calls,      \* per request: the stages invoked so far, in order
    outcome,    \* per request: how each invoked stage ended
    delivered,  \* per request: what was at final_path when it answered 200
    scn         \* the setting: the URLs, file names and file types clients send
                \* to /process, the references they send to /file, whether they
                \* wait for one /process to answer before sending the next, and
                \* the ways the downloader can end

vars == <<fs, pc, req, loc, resp, got, calls, outcome, delivered, scn>>

NoPath == <<>>
NoFile == [kind |-> "none", by |-> 0, stem |-> "-", form |-> "-"]
NoRequest == [youtube_url |-> "-", file_name |-> <<>>, file_type |-> "-"]
NoLocals == [file_path |-> NoPath, out_dir |-> NoPath, sound_file |-> NoPath]
NoOutcome == [fetch |-> "-", separate |-> "-", trim |-> "-", finalize |-> "-"]
NoGet == [v |-> NoPath, kind |-> "-", response |-> NoResponse]

InFlight(r) == pc[r] \notin {"new", "done"}

\* The references a client asks GET /file for.
GetPaths == {FinalPath(n) : n \in FileNames} \cup {OUTPUT_DIR}

\* Every input, sent with or without waiting for the previous answer.
AllInputs ==
    [urls |-> URLs, names |-> FileNames, types |-> FileTypes, gets |-> GetPaths,
     sequential |-> FALSE, fetch |-> FetchEnvs]

\* DOWNLOAD_DIR.mkdir(exist_ok=True); OUTPUT_DIR.mkdir(exist_ok=True)
InitialFs == (DOWNLOAD_DIR :> Dir) @@ (OUTPUT_DIR :> Dir)

Start(inputs) ==
    /\ scn = inputs
    /\ fs = InitialFs
    /\ pc = [r \in Reqs |-> "new"]
    /\ req = [r \in Reqs |-> NoRequest]
    /\ loc = [r \in Reqs |-> NoLocals]
    /\ resp = [r \in Reqs |-> NoResponse]
    /\ got = NoGet
    /\ calls = [r \in Reqs |-> <<>>]
    /\ outcome = [r \in Reqs |-> NoOutcome]
    /\ delivered = [r \in Reqs |-> NoFile]

Init == Start(AllInputs)

----------------------------------------------------------------------------
(* GET /process.  The handler runs in a worker thread; the external tools  *)
(* block, so the handlers of concurrent requests interleave between the    *)
(* stages.  Requests are numbered in their order of arrival.               *)

\* Arrival and validation of file_type.
Receive(r) ==
    /\ pc[r] = "new"
    /\ IF r = 1 THEN TRUE ELSE pc[r - 1] # "new"
    /\ scn.sequential => \A q \in Reqs : ~InFlight(q)
    /\ \E u \in scn.urls, n \in scn.names, t \in scn.types :
          /\ req' = [req EXCEPT ![r] =
                        [youtube_url |-> u, file_name |-> n, file_type |-> t]]
          /\ IF t \notin ValidTypes
             THEN /\ resp' = [resp EXCEPT ![r] = ValidationResponse]
                  /\ pc' = [pc EXCEPT ![r] = "done"]
             ELSE /\ resp' = resp
                  /\ pc' = [pc EXCEPT ![r] = "fetch"]
    /\ UNCHANGED <<fs, loc, got, calls, outcome, delivered, scn>>

\* file_path = download_audio(youtube_url, file_name)
Fetch(r) ==
    /\ pc[r] = "fetch"
    /\ \E env \in scn.fetch :
          LET res == download_audio(fs, r, req[r].youtube_url, req[r].file_name, env)
          IN  /\ fs' = res.fs
              /\ calls' = [calls EXCEPT ![r] = Append(@, "download_audio")]
              /\ outcome' = [outcome EXCEPT ![r].fetch = env]
              /\ IF res.exc # NoExc
                 THEN /\ resp' = [resp EXCEPT ![r] = ExceptResponse(res.exc)]
                      /\ pc' = [pc EXCEPT ![r] = "done"]
                      /\ loc' = loc
                 ELSE /\ loc' = [loc EXCEPT ![r].file_path = res.ret]
                      /\ pc' = [pc EXCEPT ![r] = "separate"]
                      /\ resp' = resp
    /\ UNCHANGED <<req, got, delivered, scn>>

\* out_dir = separate_audio(file_path)
Separate(r) ==
    /\ pc[r] = "separate"
    /\ \E env \in SepEnvs :
          LET res == separate_audio(fs, loc[r].file_path, env)
          IN  /\ fs' = res.fs
              /\ calls' = [calls EXCEPT ![r] = Append(@, "separate_audio")]
              /\ outcome' = [outcome EXCEPT ![r].separate = res.outcome]
              /\ IF res.exc # NoExc
                 THEN /\ resp' = [resp EXCEPT ![r] = ExceptResponse(res.exc)]
                      /\ pc' = [pc EXCEPT ![r] = "done"]
                      /\ loc' = loc
                 ELSE /\ loc' = [loc EXCEPT ![r].out_dir = res.ret]
                      /\ pc' = [pc EXCEPT ![r] = "trim"]
                      /\ resp' = resp
    /\ UNCHANGED <<req, got, delivered, scn>>

\* selected_file = ...; sound_file = keep_only_sound(selected_file)
Trim(r) ==
    /\ pc[r] = "trim"
    /\ \E env \in TrimEnvs :
          LET res == keep_only_sound(fs, SelectedFile(loc[r].out_dir, req[r].file_type), env)
          IN  /\ fs' = res.fs
              /\ calls' = [calls EXCEPT ![r] = Append(@, "keep_only_sound")]
              /\ outcome' = [outcome EXCEPT ![r].trim = res.outcome]
              /\ IF res.exc # NoExc
                 THEN /\ resp' = [resp EXCEPT ![r] = ExceptResponse(res.exc)]
                      /\ pc' = [pc EXCEPT ![r] = "done"]
                      /\ loc' = loc
                 ELSE /\ loc' = [loc EXCEPT ![r].sound_file = res.ret]
                      /\ pc' = [pc EXCEPT ![r] = "finalize"]
                      /\ resp' = resp
    /\ UNCHANGED <<req, got, delivered, scn>>

\* final_path = ...; os.replace(sound_file, final_path); return {"file": ...}
Finalize(r) ==
    /\ pc[r] = "finalize"
    /\ LET final_path == FinalPath(req[r].file_name)
           res == os_replace(fs, loc[r].sound_file, final_path)
       IN  /\ fs' = res.fs
           /\ calls' = [calls EXCEPT ![r] = Append(@, "os.replace")]
           /\ pc' = [pc EXCEPT ![r] = "done"]
           /\ IF res.exc # NoExc
              THEN /\ resp' = [resp EXCEPT ![r] = ExceptResponse(res.exc)]
                   /\ outcome' = [outcome EXCEPT ![r].finalize = res.exc.detail]
                   /\ delivered' = delivered
              ELSE /\ resp' = [resp EXCEPT ![r] = FileReference(final_path)]
                   /\ outcome' = [outcome EXCEPT ![r].finalize = "ok"]
                   /\ delivered' = [delivered EXCEPT ![r] = res.fs[final_path]]
    /\ UNCHANGED <<req, loc, got, scn>>

\* GET /file?v=...
GetFile ==
    /\ \E v \in scn.gets :
          got' = [v |-> v,
                  kind |-> IF Exists(fs, v) THEN fs[v].kind ELSE "none",
                  response |-> get_file(fs, v)]
    /\ UNCHANGED <<fs, pc, req, loc, resp, calls, outcome, delivered, scn>>

Next ==
    \/ \E r \in Reqs : Receive(r)
    \/ \E r \in Reqs : Fetch(r)
    \/ \E r \in Reqs : Separate(r)
    \/ \E r \in Reqs : Trim(r)
    \/ \E r \in Reqs : Finalize(r)
    \/ GetFile

Spec == Init /\ [][Next]_vars

\* The same inputs, each request sent after the previous one was answered.
SpecSequential == Start([AllInputs EXCEPT !.sequential = TRUE]) /\ [][Next]_vars

\* Sequential requests with a downloader whose every failure raises.
SpecSequentialRaising ==
    Start([AllInputs EXCEPT !.sequential = TRUE, !.fetch = {"ok", "raise"}])
        /\ [][Next]_vars

\* Requests for one file name with different URLs, sent without waiting, with
\* a downloader whose every failure raises.
RaceInputs ==
    [urls |-> URLs, names |-> {<<"a">>}, types |-> {"vocals"},
     gets |-> {FinalPath(<<"a">>)}, sequential |-> FALSE, fetch |-> {"ok", "raise"}]

SpecRace == Start(RaceInputs) /\ [][Next]_vars

\* One URL, a plain name and the name of its own final file, a valid and an
\* invalid file type, sent without waiting.
FaultInputs ==
    [urls |-> {"u1"}, names |-> {<<"a">>, <<"a", "_sound", ".", "wav">>},
     types |-> {"vocals", "karaoke"},
     gets |-> {FinalPath(<<"a">>), FinalPath(<<"b">>)}, sequential |-> FALSE,
     fetch |-> FetchEnvs]

SpecFaults == Start(FaultInputs) /\ [][Next]_vars

----------------------------------------------------------------------------
(* Properties *)

Started(r) == pc[r] # "new"
Done(r) == pc[r] = "done"
Stages == <<"download_audio", "separate_audio", "keep_only_sound", "os.replace">>
Invoked(r, stage) == \E i \in 1..Len(calls[r]) : calls[r][i] = stage
IsPrefix(s, t) == Len(s) <= Len(t) /\ SubSeq(t, 1, Len(s)) = s

FetchFailed(r) == outcome[r].fetch \in {"silent", "raise"}
SeparateFailed(r) == outcome[r].separate \in {"mkdir_error", "no_input", "fail"}
TrimFailed(r) == outcome[r].trim \in {"fail_empty", "fail_partial"}

\* The paths the stages invoked for request r read or wrote.
Touched(r) ==
    (IF Invoked(r, "download_audio")
     THEN DownloadTouched(req[r].file_name, outcome[r].fetch) ELSE {})
    \cup (IF Invoked(r, "separate_audio")
          THEN SeparateTouched(loc[r].file_path, outcome[r].separate) ELSE {})
    \cup (IF Invoked(r, "keep_only_sound")
          THEN TrimTouched(SelectedFile(loc[r].out_dir, req[r].file_type), outcome[r].trim)
          ELSE {})
    \cup (IF Invoked(r, "os.replace")
          THEN {loc[r].sound_file, FinalPath(req[r].file_name)} ELSE {})

WantedStem(r) == IF req[r].file_type = "vocals" THEN "vocals" ELSE "accompaniment"

\* C1: a request whose file_type is neither 'vocals' nor 'music' is answered
\* 400 with the validation message; no stage is invoked for it and it touches
\* no path of the filesystem.
C1_InvalidTypeRejected ==
    \A r \in Reqs :
        (Started(r) /\ req[r].file_type \notin {"vocals", "music"}) =>
            /\ Done(r)
            /\ resp[r].status = 400
            /\ resp[r].field = "error"
            /\ resp[r].msg = "file_type must be 'vocals' or 'music'"
            /\ calls[r] = <<>>
            /\ outcome[r] = NoOutcome
            /\ Touched(r) = {}

C1_Witness ==
    \E r \in Reqs : req[r].file_type = "karaoke" /\ Done(r) /\ resp[r].status = 400

\* C2: a request with a valid file_type whose fetch fails is answered 400 with
\* the retrieval-error message, and separate_audio is never invoked for it.
C2_FetchFailureStops ==
    \A r \in Reqs :
        FetchFailed(r) =>
            /\ ~Invoked(r, "separate_audio")
            /\ Done(r) => /\ resp[r].status = 400
                          /\ resp[r].field = "error"
                          /\ resp[r].msg = "Download failed"

\* C3: a request whose fetch succeeded and whose separation fails is answered
\* 500, and keep_only_sound is never invoked for it.
C3_SeparationFailureStops ==
    \A r \in Reqs :
        (outcome[r].fetch = "ok" /\ SeparateFailed(r)) =>
            /\ Done(r)
            /\ resp[r].status = 500
            /\ resp[r].field = "error"
            /\ ~Invoked(r, "keep_only_sound")
            /\ ~Invoked(r, "os.replace")

C3_Witness ==
    \E r \in Reqs :
        /\ outcome[r].fetch = "ok"
        /\ outcome[r].separate = "fail"
        /\ Done(r)
        /\ resp[r].status = 500

\* C4 (where no two requests overlap): a request whose
\* three external tools all succeed is answered 200 with a reference to the final
\* path derived from file_name, the file is at that path when the response is
\* returned, and GET /file on that path then returns it.
C4_HappyPath ==
    \A r \in Reqs :
        (/\ Done(r)
         /\ outcome[r].fetch = "ok"
         /\ outcome[r].separate = "ok"
         /\ outcome[r].trim = "ok") =>
            /\ resp[r].status = 200
            /\ QueryV(resp[r].file) = FinalPath(req[r].file_name)
            /\ delivered[r].kind = "file"
            /\ (fs[FinalPath(req[r].file_name)] = delivered[r]) =>
                    get_file(fs, QueryV(resp[r].file)).status = 200

\* The status the error taxonomy gives a failed /process request.
TaxonomyStatus(r) ==
    IF req[r].file_type \notin {"vocals", "music"} THEN 400
    ELSE IF FetchFailed(r) THEN 400
    ELSE 500

\* C5: every failure response, of /process and of /file alike, is a JSON
\* object with an `error` field and the status of the error taxonomy.
C5_ErrorBodies ==
    /\ \A r \in Reqs :
          (Done(r) /\ resp[r].status # 200) =>
              resp[r].field = "error" /\ resp[r].status = TaxonomyStatus(r)
    /\ (got # NoGet /\ got.response.status # 200) =>
          got.response.field = "error" /\ got.response.status = 404

\* C6: GET /file on a reference at which nothing exists returns 404 "File not
\* found" and leaves the filesystem as it was, whatever requests have run or
\* are in flight.
C6_MissingReference404 ==
    [][got' # got =>
          /\ fs' = fs
          /\ ~Exists(fs, got'.v) =>
                /\ got'.response.status = 404
                /\ got'.response.msg = "File not found"]_vars

\* A 404 for a missing reference, after one request was answered 200 and
\* while another is in flight.
C6_Witness ==
    /\ got.kind = "none"
    /\ got.response.status = 404
    /\ \E r \in Reqs : resp[r].status = 200
    /\ \E r \in Reqs : InFlight(r)

\* C7: the file a request answers 200 with is the stem its file_type selected,
\* of audio fetched by itself or by another request that shares its download
\* file: with a shared file_name it can be either request's audio.
C7_EitherAudio ==
    \A r \in Reqs :
        resp[r].status = 200 =>
            /\ delivered[r].kind = "file"
            /\ delivered[r].stem = WantedStem(r)
            /\ \E q \in Reqs :
                  /\ delivered[r].by = q
                  /\ outcome[q].fetch = "ok"
                  /\ DownloadedFile(req[q].file_name) = loc[r].file_path

\* Two requests with one file_name and different URLs: one is answered 200,
\* while the other is still in flight, with a reference to a file that holds
\* the other's audio.
C7_Witness ==
    \E r \in Reqs, q \in Reqs :
        /\ r # q
        /\ InFlight(q)
        /\ req[r].file_name = req[q].file_name
        /\ req[r].youtube_url # req[q].youtube_url
        /\ resp[r].status = 200
        /\ delivered[r].by = q
        /\ IsFile(fs, FinalPath(req[r].file_name))
        /\ fs[FinalPath(req[r].file_name)].by = q

\* C8: the stages of a request run at most once each, in the order Fetch,
\* Separate, Trim, Finalize; once a stage has failed no later stage runs and
\* the request is not answered 200.
C8_AbortOnFirstFailure ==
    \A r \in Reqs :
        /\ IsPrefix(calls[r], Stages)
        /\ FetchFailed(r) => Len(calls[r]) = 1
        /\ SeparateFailed(r) => Len(calls[r]) = 2
        /\ TrimFailed(r) => Len(calls[r]) = 3
        /\ (FetchFailed(r) \/ SeparateFailed(r) \/ TrimFailed(r)) => resp[r].status # 200

\* C9 (where no two requests overlap): a request answered 200 delivers the
\* stem its own file_type selected, of audio fetched from its own URL.
C9_OwnAudio ==
    \A r \in Reqs :
        resp[r].status = 200 =>
            /\ delivered[r].by \in Reqs
            /\ req[delivered[r].by].youtube_url = req[r].youtube_url
            /\ delivered[r].stem = WantedStem(r)

\* C10: two requests with different file_name values never read or write a
\* common path.
C10_DistinctNamesDisjoint ==
    \A r \in Reqs, q \in Reqs :
        (r # q /\ Started(r) /\ Started(q) /\ req[r].file_name # req[q].file_name) =>
            Touched(r) \cap Touched(q) = {}

====
